---- MODULE Spec2Model ----
(***************************************************************************)
(* Model of batt3.py: the battery indicator for a 9 x 34 LED matrix.       *)
(*                                                                         *)
(* Number representation.  The program computes with Python floats; the    *)
(* model computes the same quantities exactly, as integers over a fixed    *)
(* denominator:                                                            *)
(*   - percent p is an integer 0..100, so fill_level = (p/100.0)*30 is a   *)
(*     number of hundredths of a row (FillHundredths);                     *)
(*   - pulse_pos and c are counted in 1/PosScale of a row;                 *)
(*   - pulse_fade is counted in steps of FADE_SPEED (FadeOne steps = 1.0); *)
(*   - math.exp is tabulated to 1/ExpScale at the arguments -(k/4)^2 that  *)
(*     (r - c)/SIGMA takes for such c;                                     *)
(*   - a multiplier is a numerator over MulDen.                            *)
(* For every integer percent and every center that is a multiple of half a *)
(* row in [2,33] these integers give the cells the float computation gives.*)
(* None is the integer -1, which is no row coordinate and no percent.      *)
(***************************************************************************)
EXTENDS Integers, Sequences, FiniteSets, TLC

\* ---- Configuration (batt3.py lines 10-19) ----
WIDTH == 9
HEIGHT == 34
MAX_BRIGHT == 255
MIN_M_NUM == 10
SIGMA == 2
STEP_SCALE == 100
FadeOne == 100
FADE_SPEED == 1
PULSE_SPEED_MODIFIER == 2
CMD_STAGE_COL == 7
CMD_FLUSH_COLS == 8

None == -1

\* pulse_pos is counted in units of 1/PosScale row
PosScale == 2

\* math.exp(-(k/4)^2) * ExpScale, rounded, for k = 0, 1, 2, ...; 0 from k = 13 on
ExpScale == 10000
ExpTable == <<10000, 9394, 7788, 5698, 3679, 2096, 1054, 468, 183, 63, 19, 5, 1>>

\* ---- Model bounds ----
\* the telemetry reports rates of 0..MaxRateSteps times RateUnit milliwatts
MaxRateSteps == 1
\* the telemetry reports the percents of 0..100 that are multiples of PercentStep
PercentStep == 50
\* send_column is tried on values up to MaxExcess outside 0..255
MaxExcess == 2

Min(a, b) == IF a < b THEN a ELSE b
Max(a, b) == IF a > b THEN a ELSE b
Abs(a) == IF a < 0 THEN -a ELSE a

\* Python's round(n/d) for d > 0: to the nearest integer, a tie to the even one
Round(n, d) ==
    LET q == n \div d
        r == n % d
    IN  IF 2 * r > d \/ (2 * r = d /\ q % 2 = 1) THEN q + 1 ELSE q

\* ---- compute_multiplier (lines 38-42) ----
MulDen == MAX_BRIGHT * ExpScale

\* math.exp(-dist**2) for dist = k / (PosScale * SIGMA), times ExpScale
ExpNegSq(k) == IF k + 1 <= Len(ExpTable) THEN ExpTable[k + 1] ELSE 0

\* the multiplier without the floor min_m
compute_multiplier_NoFloor(r, cc) ==
    IF cc = None THEN MulDen
    ELSE MulDen - MAX_BRIGHT * ExpNegSq(Abs(PosScale * r - cc))

\* the multiplier with the sign of the Gaussian term turned
compute_multiplier_Gain(r, cc) ==
    IF cc = None THEN MulDen
    ELSE MulDen + (MAX_BRIGHT - MIN_M_NUM) * ExpNegSq(Abs(PosScale * r - cc))

\* the multiplier for row r and center c (in 1/PosScale rows), times MulDen
compute_multiplier(r, cc) ==
    IF cc = None THEN MulDen
    ELSE MulDen - (MAX_BRIGHT - MIN_M_NUM) * ExpNegSq(Abs(PosScale * r - cc))

\* Double rounding at the pulse center, r = c (lines 13 and 42), counted in
\* units of 2^-57, the last mantissa bit of MIN_M.  MIN_M = 10/255 is the
\* double 0x1.4141414141414p-5, whose mantissa ends in the bits 0100.
MIN_M_LOW == 4
\* doubles in [0.5, 1), where 1 - min_m lies, are 2^-53 = UlpRatio units apart
UlpRatio == 16
\* 1 - min_m (line 42) is the exact difference rounded to a double: what the
\* rounding adds to it
one_minus_min_m_error ==
    LET rest == (UlpRatio - MIN_M_LOW) % UlpRatio
    IN  UlpRatio * Round(rest, UlpRatio) - rest
\* compute_multiplier(c, c, sigma, min_m) - min_m: math.exp(-0.0) is 1.0, the
\* product and the outer subtraction are exact, so the rounding of 1 - min_m
\* is all of the difference
center_error == 0 - one_minus_min_m_error

\* ---- create_battery_frame (lines 44-85) ----
\* fill_level = (p / 100.0) * 30 rows, which is p * 30 hundredths of a row
FillHundredths(pp) == pp * 30
full_rows_of(pp) == FillHundredths(pp) \div 100
partial_fraction_of(pp) == FillHundredths(pp) % 100
partial_row_of(pp) == IF full_rows_of(pp) < 30 THEN 32 - full_rows_of(pp) ELSE None

\* fade_factor of the partial row as <<numerator, denominator>>
fade_factor(col, pf) ==
    IF col = 4 THEN <<Min(33, pf), 33>>
    ELSE IF col \in {3, 5} THEN <<Max(0, pf - 33), 33>>
    ELSE <<Max(0, pf - 66), 34>>

\* line 62: the row lies in the solid fill
is_full_row_Inclusive(row, fr) == row >= 32 - fr

is_full_row(row, fr) == row > 32 - fr

\* lines 52-75: the cell before the pulse effect, for full_rows fr,
\* partial_fraction pf (hundredths) and partial_row pr
BaseCell(fr, pf, pr, col, row) ==
    IF row = 0 THEN (IF 3 <= col /\ col <= 5 THEN MAX_BRIGHT ELSE 0)
    ELSE IF row = 1 THEN (IF col \in {0, 1, 2, 6, 7, 8} THEN MAX_BRIGHT ELSE 0)
    ELSE IF row = 33 THEN MAX_BRIGHT
    ELSE IF col \in {0, 8} THEN MAX_BRIGHT
    ELSE IF 2 <= col /\ col <= 6
         THEN IF is_full_row(row, fr) THEN MAX_BRIGHT
              ELSE IF row = pr /\ pr # None
                   THEN LET ff == fade_factor(col, pf)
                        IN  Round(MAX_BRIGHT * ff[1], ff[2])
                   ELSE 0
         ELSE 0

\* lines 79-83 with the loops' ranges widened to the whole grid
PulseCell_WholeGrid(v, cc, col, row) ==
    IF cc # None THEN Round(v * compute_multiplier(row, cc), MulDen) ELSE v

\* lines 79-83: the pulse effect on one cell
PulseCell(v, cc, col, row) ==
    IF cc # None /\ 2 <= col /\ col <= 6 /\ 2 <= row /\ row <= 32
    THEN Round(v * compute_multiplier(row, cc), MulDen)
    ELSE v

create_battery_frame(pp, cc) ==
    LET fr == full_rows_of(pp)
        pf == partial_fraction_of(pp)
        pr == partial_row_of(pp)
    IN  [col \in 0..(WIDTH - 1) |->
            [row \in 0..(HEIGHT - 1) |->
                PulseCell(BaseCell(fr, pf, pr, col, row), cc, col, row)]]

\* ---- send_column, send_flush (lines 25-36) ----
\* line 30 without the lower clamp
ClampByte_NoLower(val) == IF val > 255 THEN 255 ELSE val

\* lines 28-30
ClampByte(val) == IF val < 0 \/ val > 255 THEN Max(0, Min(255, val)) ELSE val

send_column(column_id, values) ==
    <<50, 172, CMD_STAGE_COL, column_id>>
        \o [i \in 1..HEIGHT |-> ClampByte(values[i - 1])]

send_flush == <<50, 172, CMD_FLUSH_COLS>>

\* the for loop of lines 150-151 from column col on, then send_flush (line 152):
\* the writes to the transport in the order they are made
SendFrom(cols, col) ==
    [i \in 1..(WIDTH - col) |-> send_column(col + i - 1, cols[col + i - 1])]

\* the flush sent before the columns
EmitFrame_FlushFirst(cols) == <<send_flush>> \o SendFrom(cols, 0)

EmitFrame(cols) == SendFrom(cols, 0) \o <<send_flush>>

\* ---- Main loop (lines 88-158) ----
VARIABLES
    pc,             \* "sample": top of the loop; "render": line 149;
                    \* "send": lines 150-152; "done": after the loop
    pulse_pos,      \* line 90, None or a row in 1/PosScale rows
    pulse_fade,     \* line 91, in steps of FADE_SPEED
    p,              \* percent of the current tick, None before the first tick
    charge_rate,    \* milliwatts
    discharge_rate, \* milliwatts
    wmi_failed,     \* the except branch of lines 111-115 ran in this tick
    mode,           \* "charge", "discharge", "idle"; "start" before the first tick
    top_fill,       \* line 128, in rows
    c,              \* the center handed to create_battery_frame
    columns,        \* the grid of line 149, <<>> until it is built
    written,        \* the writes made to the transport in the current tick
    closed          \* ser.close() was called

vars == <<pc, pulse_pos, pulse_fade, p, charge_rate, discharge_rate, wmi_failed,
          mode, top_fill, c, columns, written, closed>>

\* what the telemetry can report
\* the rate that moves the pulse by one row a tick
RateUnit == (1000 * STEP_SCALE) \div PULSE_SPEED_MODIFIER
Rates == {k * RateUnit : k \in 0..MaxRateSteps}
LoopPercents == {pp \in 0..100 : pp % PercentStep = 0}

\* line 121
mode_of(cr, dr) == IF cr > 0 THEN "charge" ELSE IF dr > 0 THEN "discharge" ELSE "idle"

\* lines 122-124
target_fade_of(m) == IF m # "idle" THEN FadeOne ELSE 0

\* the fade set to its target at once
next_fade_Jump(f, target) == target

\* the fade that stops one step short of 1.0
next_fade_Stall(f, target) ==
    IF f < target /\ f + FADE_SPEED < FadeOne THEN f + FADE_SPEED
    ELSE IF f > target THEN Max(0, f - FADE_SPEED) ELSE f

next_fade(f, target) ==
    LET g == f + (IF f < target THEN FADE_SPEED
                  ELSE IF f > target THEN -FADE_SPEED ELSE 0)
    IN  Max(0, Min(FadeOne, g))

\* (watts / STEP_SCALE) * PULSE_SPEED_MODIFIER, in 1/PosScale rows
PulseStep(rate) == (rate * PULSE_SPEED_MODIFIER * PosScale) \div (1000 * STEP_SCALE)

\* lines 131-134 without the reset of lines 135-136
charge_pos_NoReset(pos, rate, tf) ==
    IF pos = None THEN 33 * PosScale ELSE pos - PulseStep(rate)

\* lines 131-136
charge_pos(pos, rate, tf) ==
    LET moved == IF pos = None THEN 33 * PosScale ELSE pos - PulseStep(rate)
    IN  IF moved < tf * PosScale THEN 33 * PosScale ELSE moved

\* lines 139-144 with the reset of line 144 going to the bottom row
discharge_pos_ResetBottom(pos, rate, tf) ==
    LET moved == IF pos = None THEN tf * PosScale ELSE pos + PulseStep(rate)
    IN  IF moved > 33 * PosScale THEN 33 * PosScale ELSE moved

\* lines 139-144
discharge_pos(pos, rate, tf) ==
    LET moved == IF pos = None THEN tf * PosScale ELSE pos + PulseStep(rate)
    IN  IF moved > 33 * PosScale THEN tf * PosScale ELSE moved

\* lines 130-147 with the idle branch forgetting the position
next_pos_IdleClears(m, pos, cr, dr, tf) ==
    IF m = "charge" /\ cr > 0 THEN charge_pos(pos, cr, tf)
    ELSE IF m = "discharge" /\ dr > 0 THEN discharge_pos(pos, dr, tf)
    ELSE None

\* lines 130-147: the new pulse_pos
next_pos(m, pos, cr, dr, tf) ==
    IF m = "charge" /\ cr > 0 THEN charge_pos(pos, cr, tf)
    ELSE IF m = "discharge" /\ dr > 0 THEN discharge_pos(pos, dr, tf)
    ELSE pos

\* the center gated by the fade alone, whatever the mode
center_of_FadeGated(m, pos, f) == IF f > 0 THEN pos ELSE None

\* lines 137, 145, 147: the center handed to the renderer
center_of(m, pos, f) ==
    IF m # "idle" THEN (IF f > 0 THEN pos ELSE None) ELSE None

Init ==
    /\ pc = "sample"
    /\ pulse_pos = None
    /\ pulse_fade = 0
    /\ p = None
    /\ charge_rate = 0
    /\ discharge_rate = 0
    /\ wmi_failed = FALSE
    /\ mode = "start"
    /\ top_fill = None
    /\ c = None
    /\ columns = <<>>
    /\ written = <<>>
    /\ closed = FALSE

\* lines 117-147 for the percent and rates the telemetry gave
Animate(pp, cr, dr) ==
    LET m == mode_of(cr, dr)
        f == next_fade(pulse_fade, target_fade_of(m))
        tf == 32 - full_rows_of(pp)
        pos == next_pos(m, pulse_pos, cr, dr, tf)
    IN  /\ p' = pp
        /\ charge_rate' = cr
        /\ discharge_rate' = dr
        /\ mode' = m
        /\ pulse_fade' = f
        /\ top_fill' = tf
        /\ pulse_pos' = pos
        /\ c' = center_of(m, pos, f)
        /\ columns' = <<>>
        /\ written' = <<>>
        /\ pc' = "render"
        /\ UNCHANGED closed

\* lines 95-97 without the ser.close() of line 158
NoBattery_NoClose ==
    /\ pc = "sample"
    /\ pc' = "done"
    /\ UNCHANGED <<pulse_pos, pulse_fade, p, charge_rate, discharge_rate, wmi_failed,
                   mode, top_fill, c, columns, written, closed>>

\* lines 95-97 and 158: no battery, leave the loop and close the port
NoBattery ==
    /\ pc = "sample"
    /\ pc' = "done"
    /\ closed' = TRUE
    /\ UNCHANGED <<pulse_pos, pulse_fade, p, charge_rate, discharge_rate, wmi_failed,
                   mode, top_fill, c, columns, written>>

\* lines 100-110: WMI answers; the percent is WMI's or, without usable
\* capacities, psutil's
Tick ==
    /\ pc = "sample"
    /\ \E pp \in LoopPercents, cr \in Rates, dr \in Rates :
          Animate(pp, cr, dr)
    /\ wmi_failed' = FALSE

\* lines 111-113 without the zeroing of the rates in lines 114-115
TickWmiError_RatesKept ==
    /\ pc = "sample"
    /\ \E bp \in LoopPercents, cr \in Rates, dr \in Rates : Animate(bp, cr, dr)
    /\ wmi_failed' = TRUE

\* lines 111-115: WMI raises
TickWmiError ==
    /\ pc = "sample"
    /\ \E bp \in LoopPercents : Animate(bp, 0, 0)
    /\ wmi_failed' = TRUE

\* line 149
Render ==
    /\ pc = "render"
    /\ columns' = create_battery_frame(p, c)
    /\ pc' = "send"
    /\ UNCHANGED <<pulse_pos, pulse_fade, p, charge_rate, discharge_rate, wmi_failed,
                   mode, top_fill, c, written, closed>>

\* lines 150-156
Send ==
    /\ pc = "send"
    /\ written' = written \o EmitFrame(columns)
    /\ pc' = "sample"
    /\ UNCHANGED <<pulse_pos, pulse_fade, p, charge_rate, discharge_rate, wmi_failed,
                   mode, top_fill, c, columns, closed>>

Next == NoBattery \/ Tick \/ TickWmiError \/ Render \/ Send

Spec == Init /\ [][Next]_vars

\* ---- the loop on a battery whose percent stays put ----
\* The percent the telemetry keeps reporting; the mode still changes freely.
SteadyPercent == 0

\* lines 100-110 at the steady percent
SteadyTick ==
    /\ pc = "sample"
    /\ \E cr \in Rates, dr \in Rates : Animate(SteadyPercent, cr, dr)
    /\ wmi_failed' = FALSE

\* lines 111-115 at the steady percent
SteadyTickWmiError ==
    /\ pc = "sample"
    /\ Animate(SteadyPercent, 0, 0)
    /\ wmi_failed' = TRUE

SteadyNext == NoBattery \/ SteadyTick \/ SteadyTickWmiError \/ Render \/ Send

\* The loop is sequential code: while the battery is present an iteration
\* that has started runs to its end and the next one starts (lines 93-152).
\* The battery may stay forever, so NoBattery is under no fairness.
SteadySpec ==
    /\ Init
    /\ [][SteadyNext]_vars
    /\ WF_vars(SteadyTick \/ SteadyTickWmiError)
    /\ WF_vars(Render)
    /\ WF_vars(Send)

\* ---- create_battery_frame on its own: every percent, every center ----
Centers == (2 * PosScale)..(33 * PosScale)

FrameInit ==
    /\ pc = "render"
    /\ p \in 0..100
    /\ c \in Centers \cup {None}
    /\ pulse_pos = c
    /\ pulse_fade = 0
    /\ charge_rate = 0
    /\ discharge_rate = 0
    /\ wmi_failed = FALSE
    /\ mode = "start"
    /\ top_fill = None
    /\ columns = <<>>
    /\ written = <<>>
    /\ closed = FALSE

FrameSpec == FrameInit /\ [][Render]_vars

\* ---- send_column on its own: lists with values inside and outside 0..255 ----
TestValues == ((0 - MaxExcess)..(-1)) \cup {0, 10, 255} \cup (256..(255 + MaxExcess))

EncInit ==
    /\ pc = "send"
    /\ \E v \in [0..2 -> TestValues] :
          columns = [col \in 0..(WIDTH - 1) |->
                        [row \in 0..(HEIGHT - 1) |-> v[(row + col) % 3]]]
    /\ p = None
    /\ c = None
    /\ pulse_pos = None
    /\ pulse_fade = 0
    /\ charge_rate = 0
    /\ discharge_rate = 0
    /\ wmi_failed = FALSE
    /\ mode = "start"
    /\ top_fill = None
    /\ written = <<>>
    /\ closed = FALSE

EncSpec == EncInit /\ [][Send]_vars

\* ======================= Properties =======================

\* the tick's first step: telemetry read and pulse animated (lines 94-147)
TickStep == pc = "sample" /\ pc' = "render"

\* C1: every tick that renders writes exactly the nine stage-column frames,
\* columnId 0..8 in increasing order, each 4 header bytes and 34 value bytes,
\* and then the one flush frame; nothing is written before them in the tick.
C1_TickWritesColumnsThenFlush ==
    /\ pc \in {"render", "send"} => written = <<>>
    /\ (pc = "sample" /\ mode # "start") =>
          /\ Len(written) = WIDTH + 1
          /\ \A i \in 1..WIDTH :
                /\ Len(written[i]) = 4 + HEIGHT
                /\ SubSeq(written[i], 1, 4) = <<50, 172, 7, i - 1>>
                /\ \A j \in 5..(4 + HEIGHT) : written[i][j] \in 0..255
          /\ written[WIDTH + 1] = <<50, 172, 8>>

C1_Witness ==
    /\ pc = "sample"
    /\ mode = "charge"
    /\ c # None
    /\ Len(written) = WIDTH + 1

\* C2: send_column emits the header 0x32 0xAC 0x07 columnId and HEIGHT bytes:
\* a value in 0..255 unchanged, a value above 255 as 255, a value below 0 as 0.
C2_SendColumnClamps ==
    (pc = "sample" /\ written # <<>>) =>
        \A col \in 0..(WIDTH - 1) :
            written[col + 1] =
                <<50, 172, 7, col>> \o
                [i \in 1..HEIGHT |->
                    LET v == columns[col][i - 1]
                    IN  IF v > 255 THEN 255 ELSE IF v < 0 THEN 0 ELSE v]

C2_Witness ==
    /\ pc = "sample"
    /\ written # <<>>
    /\ columns[3][0] > 255
    /\ columns[3][1] < 0
    /\ columns[3][2] = 10
    /\ written[4][5] = 255
    /\ written[4][6] = 0
    /\ written[4][7] = 10

\* C3: the grid create_battery_frame returns has WIDTH columns of HEIGHT cells,
\* every cell an integer in 0..255.
C3_CellsInByteRange ==
    pc = "send" =>
        /\ DOMAIN columns = 0..(WIDTH - 1)
        /\ \A col \in 0..(WIDTH - 1) :
              /\ DOMAIN columns[col] = 0..(HEIGHT - 1)
              /\ \A row \in 0..(HEIGHT - 1) : columns[col][row] \in 0..255

\* clamp(n/d, 0, 1) as a numerator over d
Clamp01(n, d) == IF n < 0 THEN 0 ELSE IF n > d THEN d ELSE n

\* C4: without a pulse and with fullRows < 30, the partial row holds
\* round(255*clamp(pf/0.33,0,1)) in column 4,
\* round(255*clamp((pf-0.33)/0.33,0,1)) in columns 3 and 5 and
\* round(255*clamp((pf-0.66)/0.34,0,1)) in columns 2 and 6.
C4_PartialRowClamped ==
    (pc = "send" /\ c = None /\ (p * 30) \div 100 < 30) =>
        LET pf == (p * 30) % 100
            row == 32 - (p * 30) \div 100
        IN  /\ columns[4][row] = Round(255 * Clamp01(pf, 33), 33)
            /\ columns[3][row] = Round(255 * Clamp01(pf - 33, 33), 33)
            /\ columns[5][row] = Round(255 * Clamp01(pf - 33, 33), 33)
            /\ columns[2][row] = Round(255 * Clamp01(pf - 66, 34), 34)
            /\ columns[6][row] = Round(255 * Clamp01(pf - 66, 34), 34)

\* C5: without a pulse, for a percent whose fill level is a whole number of
\* rows, columns 2..6 are 255 in the rows r with 32 - fullRows < r <= 32 and 0
\* in the rows r with 2 <= r <= 32 - fullRows.
C5_WholeRowsFill ==
    (pc = "send" /\ c = None /\ (p * 30) % 100 = 0) =>
        \A col \in 2..6, r \in 2..32 :
            columns[col][r] = IF r > 32 - (p * 30) \div 100 THEN 255 ELSE 0

C5_Witness ==
    /\ pc = "send"
    /\ c = None
    /\ p = 50
    /\ columns[4][17] = 0
    /\ columns[4][18] = 255

\* the static chrome of the cells outside columns 2..6, rows 2..32
Chrome(col, row) ==
    IF row = 0 THEN (IF col \in 3..5 THEN 255 ELSE 0)
    ELSE IF row = 1 THEN (IF col \in {0, 1, 2, 6, 7, 8} THEN 255 ELSE 0)
    ELSE IF row = 33 THEN 255
    ELSE IF col \in {0, 8} THEN 255 ELSE 0

\* C6: for every percent and every pulse center the cells outside columns 2..6,
\* rows 2..32 hold the static chrome (row 0 lit in columns 3..5, row 1 in
\* columns 0,1,2,6,7,8, rows 2..32 in columns 0 and 8, row 33 everywhere):
\* the pulse overlay changes none of them.
C6_ChromeUntouched ==
    pc = "send" =>
        \A col \in 0..(WIDTH - 1), row \in 0..(HEIGHT - 1) :
            ~(col \in 2..6 /\ row \in 2..32) => columns[col][row] = Chrome(col, row)

C6_Witness ==
    /\ pc = "send"
    /\ p = 100
    /\ c = 20 * PosScale
    /\ columns[4][20] = 10
    /\ columns[0][20] = 255
    /\ columns[4][33] = 255

\* C7: after a Charging tick the position lies in [topFill, 33] for that tick's
\* topFill = 32 - fullRows: a stored position is decreased by
\* (chargeRate/STEP_SCALE)*PULSE_SPEED_MODIFIER and reset to 33 in the same tick
\* when the decreased value is below topFill, so no position below topFill
\* leaves the tick or reaches the renderer.
C7_ChargePosInFill ==
    [][(TickStep /\ mode' = "charge") =>
          LET tf == (32 - (p' * 30) \div 100) * PosScale
              bottom == 33 * PosScale
              step == (charge_rate' * 2 * PosScale) \div (1000 * 100)
          IN  /\ tf <= pulse_pos' /\ pulse_pos' <= bottom
              /\ pulse_pos # None =>
                    pulse_pos' = IF pulse_pos - step < tf THEN bottom
                                 ELSE pulse_pos - step
              /\ c' # None => (tf <= c' /\ c' <= bottom)]_vars

C7_Witness ==
    /\ pc = "render"
    /\ mode = "charge"
    /\ p = 0
    /\ pulse_fade = 3 * FADE_SPEED
    /\ pulse_pos = 33 * PosScale
    /\ c = 33 * PosScale

\* C8 as claimed: in a Discharging tick whose previous tick was not
\* Discharging the position after the tick is that tick's topFill.
C8_EveryEntryStartsAtTopFill ==
    [][(TickStep /\ mode' = "discharge" /\ mode # "discharge") =>
          pulse_pos' = (32 - (p' * 30) \div 100) * PosScale]_vars

\* C8 as amended: a Discharging tick that finds the position none sets it to
\* that tick's topFill; every other Discharging tick, the first one after
\* Charging or Idle ticks included, adds the rate-scaled step to the stored
\* position and resets it to that tick's topFill when the sum exceeds 33.
C8_DischargePos ==
    [][(TickStep /\ mode' = "discharge") =>
          LET tf == (32 - (p' * 30) \div 100) * PosScale
              bottom == 33 * PosScale
              step == (discharge_rate' * 2 * PosScale) \div (1000 * 100)
          IN  pulse_pos' = IF pulse_pos = None THEN tf
                           ELSE IF pulse_pos + step > bottom THEN tf
                           ELSE pulse_pos + step]_vars

C8_Witness ==
    /\ pc = "render"
    /\ mode = "discharge"
    /\ p = 50
    /\ pulse_fade = FADE_SPEED
    /\ pulse_pos = 17 * PosScale

\* C9: an Idle tick leaves the stored pulse position as it was (none included),
\* and whenever fade is 0 after the fade update the center handed to the
\* renderer is none.
C9_IdleFreezesPos ==
    /\ [](pulse_fade = 0 => c = None)
    /\ [][(TickStep /\ mode' = "idle") => pulse_pos' = pulse_pos]_vars

C9_Witness ==
    /\ pc = "render"
    /\ mode = "idle"
    /\ pulse_pos = 20 * PosScale
    /\ pulse_fade = 0
    /\ c = None

\* C10: fade starts at 0 and stays in [0,1]; in one tick it changes by at most
\* FADE_SPEED and only toward the target (1 when the mode is Charging or
\* Discharging, 0 when Idle), and it is unchanged when it equals the target.
C10_FadeRamp ==
    /\ pulse_fade = 0
    /\ [](pulse_fade \in 0..FadeOne)
    /\ [][TickStep =>
            LET target == IF mode' \in {"charge", "discharge"} THEN FadeOne ELSE 0
            IN  /\ pulse_fade = target => pulse_fade' = pulse_fade
                /\ pulse_fade < target =>
                      (pulse_fade < pulse_fade' /\ pulse_fade' <= pulse_fade + FADE_SPEED)
                /\ pulse_fade > target =>
                      (pulse_fade > pulse_fade' /\ pulse_fade' >= pulse_fade - FADE_SPEED)]_vars
    /\ [][~TickStep => pulse_fade' = pulse_fade]_vars

C10_Witness ==
    /\ pc = "render"
    /\ mode = "idle"
    /\ pulse_fade = FadeOne - FADE_SPEED

\* C11: a tick whose detailed reading raises uses the fallback percent with
\* both rates zero: its mode is Idle, the center handed to the renderer is
\* none, the pulse position is unchanged, and the tick still writes the nine
\* stage frames and the flush and returns to the top of the loop with the
\* port open.
C11_TelemetryFailureTick ==
    /\ [][(TickStep /\ wmi_failed') =>
            /\ p' \in 0..100
            /\ charge_rate' = 0 /\ discharge_rate' = 0
            /\ mode' = "idle"
            /\ c' = None
            /\ pulse_pos' = pulse_pos]_vars
    /\ [][(wmi_failed /\ pc = "render") => (pc' = "send" /\ columns' # <<>>)]_vars
    /\ [][(wmi_failed /\ pc = "send") =>
            (pc' = "sample" /\ ~closed' /\ Len(written') = WIDTH + 1
             /\ written'[WIDTH + 1] = <<50, 172, 8>>
             /\ \A i \in 1..WIDTH : SubSeq(written'[i], 1, 4) = <<50, 172, 7, i - 1>>)]_vars

C11_Witness ==
    /\ wmi_failed
    /\ pc = "sample"
    /\ mode = "idle"
    /\ pulse_pos = 30 * PosScale
    /\ pulse_fade = 2 * FADE_SPEED
    /\ c = None
    /\ Len(written) = WIDTH + 1

\* C12: the loop is left only from the top of a tick, when no battery is
\* reported; that step writes nothing, the port is closed exactly when the
\* loop has been left, and nothing is written once the port is closed.
C12_TerminationClosesPort ==
    /\ [](closed <=> pc = "done")
    /\ [][pc' = "done" => (pc \in {"sample", "done"} /\ written' = written /\ closed')]_vars
    /\ [][closed => (written' = written /\ closed')]_vars

C12_Witness ==
    /\ pc = "done"
    /\ closed
    /\ mode = "discharge"
    /\ Len(written) = WIDTH + 1

\* min_m in the unit of compute_multiplier
MinM == MIN_M_NUM * ExpScale

\* the multipliers of the rows for the center c: 1.0 without a center, else at
\* most 1.0 and not decreasing as |row - center| grows
MultiplierShape ==
    \A row \in 0..(HEIGHT - 1) :
        LET m == compute_multiplier(row, c)
        IN  /\ c = None => m = MulDen
            /\ c # None =>
                  /\ m <= MulDen
                  /\ m >= MinM
                  /\ (m = MinM <=> PosScale * row = c)
                  /\ \A r2 \in 0..(HEIGHT - 1) :
                        Abs(PosScale * r2 - c) >= Abs(PosScale * row - c) =>
                            compute_multiplier(r2, c) >= m

C15_CenterInsideFill ==
    c # None => (top_fill * PosScale <= c /\ c <= 33 * PosScale)

\* C16: while the loop keeps running, if the mode stays Charging or
\* Discharging from some tick on, fade eventually reaches 1.0 and stays there,
\* and if the mode stays Idle from some tick on, fade eventually reaches 0.0
\* and stays there; the two bounds are 100 steps of FADE_SPEED apart and fade
\* moves by at most one such step per tick and by nothing between ticks, so
\* from one bound the other is not reached in fewer than 100 ticks.
C16_FadeConverges ==
    /\ (<>[](mode \in {"charge", "discharge"}) /\ []~closed)
            => <>[](pulse_fade = FadeOne)
    /\ (<>[](mode = "idle") /\ []~closed) => <>[](pulse_fade = 0)
    /\ FadeOne - 0 = 100 * FADE_SPEED
    /\ [][/\ Abs(pulse_fade' - pulse_fade) <= FADE_SPEED
          /\ ~TickStep => pulse_fade' = pulse_fade]_vars

C16_Witness ==
    /\ pc = "sample"
    /\ p = SteadyPercent
    /\ mode = "discharge"
    /\ pulse_fade = FadeOne
    /\ ~closed
    /\ Len(written) = WIDTH + 1

\* C17: the center handed to the renderer is none exactly in the Idle ticks:
\* in a Charging or Discharging tick fade is above 0 after its update and the
\* center is the pulse position, at full strength whatever the fade (a lit
\* cell at the center row is 255 * minMultiplier = 10); in an Idle tick the
\* center is none also while fade is above 0.
C17_CenterNoneIffIdle ==
    mode # "start" =>
        /\ c = None <=> mode = "idle"
        /\ mode \in {"charge", "discharge"} => (pulse_fade > 0 /\ c = pulse_pos)
        /\ (columns # <<>> /\ c # None /\ c % PosScale = 0
                /\ c \div PosScale <= 32 /\ c \div PosScale > top_fill) =>
              columns[4][c \div PosScale] = 10

C17_Witness ==
    /\ pc = "send"
    /\ mode = "idle"
    /\ pulse_fade = 3 * FADE_SPEED
    /\ pulse_pos = 31 * PosScale
    /\ c = None
    /\ columns[4][31] = 255

\* C18: the pulse overlay never brightens a cell: each cell of the grid for a
\* defined center is at most the same cell of the grid for the same percent
\* without a center, and a cell that is 0 without the pulse is 0 with it.
C18_PulseNeverBrightens ==
    (pc = "send" /\ c # None) =>
        \A col \in 0..(WIDTH - 1), row \in 0..(HEIGHT - 1) :
            LET base == create_battery_frame(p, None)[col][row]
            IN  /\ columns[col][row] <= base
                /\ base = 0 => columns[col][row] = 0

C18_Witness ==
    /\ pc = "send"
    /\ p = 50
    /\ c = 25 * PosScale
    /\ columns[4][25] = 10
    /\ columns[4][27] < 255
    /\ columns[4][10] = 0

====
